---------------------------- MODULE Spec2Model ----------------------------
(***************************************************************************)
(* json-manager: the interactive shells json_console and db_console.       *)
(*                                                                         *)
(* Strings (queries, payloads, file texts, paths) are sequences of         *)
(* one-character strings, so that splitting, parsing, formatting and       *)
(* substring search are computed the way the Python code computes them.    *)
(* Python values are tagged records:                                       *)
(*   None, bool, int, str, list (a sequence), dict (a sequence of          *)
(*   <<key, value>> pairs in insertion order, keys unique).                *)
(* JSON null and Python None are the same value, as in the code.           *)
(***************************************************************************)
EXTENDS Integers, Sequences, FiniteSets, TLC

VARIABLES
    console,    \* which program runs: "json" (json_console) or "db" (db_console)
    data,       \* json_console: Console.data (PyNone when nothing is loaded)
    db,         \* db_console: the path the TinyDB handle Console.db is bound to, or NoPath
    file_path,  \* Console.file_path, or NoPath for None
    disk,       \* the file system: path -> [exists, text]
    out,        \* what the last command did: arguments, reports, results, persists
    io_faults   \* how many file operations have failed so far

vars == <<console, data, db, file_path, disk, out, io_faults>>

(***************************************************************************)
(* Bind(v, F) is F(v) with v computed once: the local variable of a        *)
(* function body.                                                          *)
(***************************************************************************)
Bind(v, F(_)) == CHOOSE y \in {F(b) : b \in {v}} : TRUE

(***************************************************************************)
(* Python values                                                           *)
(***************************************************************************)
PyNone == [t |-> "None"]
PyBool(b) == [t |-> "bool", b |-> b]
PyInt(n) == [t |-> "int", n |-> n]
PyStr(s) == [t |-> "str", s |-> s]
PyList(xs) == [t |-> "list", xs |-> xs]
PyDict(kv) == [t |-> "dict", kv |-> kv]

isinstance_dict(v) == v.t = "dict"
isinstance_list(v) == v.t = "list"

\* current[part] / part in current, for a dict held as a sequence of pairs
HasKey(d, k) == \E i \in 1..Len(d.kv) : d.kv[i][1] = k
GetKey(d, k) == d.kv[CHOOSE i \in 1..Len(d.kv) : d.kv[i][1] = k][2]
Keys(d) == {d.kv[i][1] : i \in 1..Len(d.kv)}

\* d[k] = v: an existing key keeps its position, a new key goes last
SetKey(d, k, v) ==
    IF HasKey(d, k)
    THEN PyDict([i \in 1..Len(d.kv) |-> IF d.kv[i][1] = k THEN <<k, v>> ELSE d.kv[i]])
    ELSE PyDict(Append(d.kv, <<k, v>>))

\* int(True) = 1, int(False) = 0: Python compares bool and int as numbers
IsNumber(v) == v.t \in {"bool", "int"}
NumberOf(v) == IF v.t = "int" THEN v.n ELSE IF v.b THEN 1 ELSE 0

\* Python's ==
RECURSIVE py_eq(_, _)
py_eq(x, y) ==
    IF IsNumber(x) /\ IsNumber(y) THEN NumberOf(x) = NumberOf(y)
    ELSE IF x.t # y.t THEN FALSE
    ELSE IF x.t = "None" THEN TRUE
    ELSE IF x.t = "str" THEN x.s = y.s
    ELSE IF x.t = "list"
    THEN /\ Len(x.xs) = Len(y.xs)
         /\ \A i \in 1..Len(x.xs) : py_eq(x.xs[i], y.xs[i])
    ELSE /\ Keys(x) = Keys(y)
         /\ \A k \in Keys(x) : py_eq(GetKey(x, k), GetKey(y, k))

(***************************************************************************)
(* Strings                                                                 *)
(***************************************************************************)
RECURSIVE Concat(_)
Concat(ss) == IF ss = <<>> THEN <<>> ELSE Head(ss) \o Concat(Tail(ss))

\* sep.join(items)
RECURSIVE Join(_, _)
Join(items, sep) ==
    IF items = <<>> THEN <<>>
    ELSE IF Len(items) = 1 THEN items[1]
    ELSE items[1] \o sep \o Join(Tail(items), sep)

StartsWith(s, p) == Len(s) >= Len(p) /\ SubSeq(s, 1, Len(p)) = p
EndsWith(s, p) == Len(s) >= Len(p) /\ SubSeq(s, Len(s) - Len(p) + 1, Len(s)) = p

\* needle in hay
Contains(hay, needle) ==
    \E i \in 1..(Len(hay) - Len(needle) + 1) :
        SubSeq(hay, i, i + Len(needle) - 1) = needle

\* s.split(sep) for a one-character sep
RECURSIVE SplitFrom(_, _, _)
SplitFrom(s, sep, cur) ==
    IF s = <<>> THEN <<cur>>
    ELSE IF Head(s) = sep THEN <<cur>> \o SplitFrom(Tail(s), sep, <<>>)
    ELSE SplitFrom(Tail(s), sep, Append(cur, Head(s)))
Split(s, sep) == SplitFrom(s, sep, <<>>)

\* s.strip() for blanks
RECURSIVE LStrip(_)
LStrip(s) == IF s # <<>> /\ Head(s) = " " THEN LStrip(Tail(s)) ELSE s
RECURSIVE RStrip(_)
RStrip(s) ==
    IF s # <<>> /\ s[Len(s)] = " " THEN RStrip(SubSeq(s, 1, Len(s) - 1)) ELSE s
Strip(s) == RStrip(LStrip(s))

UpperToLower ==
    [A |-> "a", B |-> "b", C |-> "c", D |-> "d", E |-> "e", F |-> "f", G |-> "g",
     H |-> "h", I |-> "i", J |-> "j", K |-> "k", L |-> "l", M |-> "m", N |-> "n",
     O |-> "o", P |-> "p", Q |-> "q", R |-> "r", S |-> "s", T |-> "t", U |-> "u",
     V |-> "v", W |-> "w", X |-> "x", Y |-> "y", Z |-> "z"]
\* s.lower()
Lower(s) ==
    [i \in 1..Len(s) |-> IF s[i] \in DOMAIN UpperToLower THEN UpperToLower[s[i]] ELSE s[i]]

Digits == <<"0", "1", "2", "3", "4", "5", "6", "7", "8", "9">>
IsDigit(c) == \E i \in 1..10 : Digits[i] = c
DigitVal(c) == (CHOOSE i \in 1..10 : Digits[i] = c) - 1

\* str(n) for an int
RECURSIVE NatStr(_)
NatStr(n) == IF n < 10 THEN <<Digits[n + 1]>> ELSE NatStr(n \div 10) \o <<Digits[(n % 10) + 1]>>
IntStr(n) == IF n < 0 THEN <<"-">> \o NatStr(0 - n) ELSE NatStr(n)

\* repr(v) and str(v): str of a str is the text itself, inside a container repr is
\* used (single quotes; the texts of the model hold no quote and no backslash)
RECURSIVE py_repr(_)
py_repr(v) ==
    IF v.t = "None" THEN <<"N", "o", "n", "e">>
    ELSE IF v.t = "bool"
    THEN (IF v.b THEN <<"T", "r", "u", "e">> ELSE <<"F", "a", "l", "s", "e">>)
    ELSE IF v.t = "int" THEN IntStr(v.n)
    ELSE IF v.t = "str" THEN <<"'">> \o v.s \o <<"'">>
    ELSE IF v.t = "list"
    THEN <<"[">> \o Join([i \in 1..Len(v.xs) |-> py_repr(v.xs[i])], <<",", " ">>) \o <<"]">>
    ELSE <<"{">>
         \o Join([i \in 1..Len(v.kv) |->
                    <<"'">> \o v.kv[i][1] \o <<"'", ":", " ">> \o py_repr(v.kv[i][2])],
                 <<",", " ">>)
         \o <<"}">>
py_str(v) == IF v.t = "str" THEN v.s ELSE py_repr(v)


(***************************************************************************)
(* json.loads and json.dump                                                *)
(* The texts of the model hold integers only (no fraction, no exponent),   *)
(* no escape sequence inside a string and none of NaN / Infinity.          *)
(***************************************************************************)
IsWs(c) == c \in {" ", "\n", "\t", "\r"}
RECURSIVE SkipWs(_, _)
SkipWs(s, i) == IF i <= Len(s) /\ IsWs(s[i]) THEN SkipWs(s, i + 1) ELSE i

ParseFail == [ok |-> FALSE, v |-> PyNone, i |-> 0]
ParseOk(v, i) == [ok |-> TRUE, v |-> v, i |-> i]

LitAt(s, i, lit) == i + Len(lit) - 1 <= Len(s) /\ SubSeq(s, i, i + Len(lit) - 1) = lit

\* the index of the quote closing a string that opened before i, 0 when the
\* string does not end or holds a control character
RECURSIVE StringEnd(_, _)
StringEnd(s, i) ==
    IF i > Len(s) \/ s[i] \in {"\n", "\t", "\r"} THEN 0
    ELSE IF s[i] = "\"" THEN i
    ELSE StringEnd(s, i + 1)

RECURSIVE DigitsEnd(_, _)
DigitsEnd(s, i) == IF i <= Len(s) /\ IsDigit(s[i]) THEN DigitsEnd(s, i + 1) ELSE i

RECURSIVE DigitsVal(_, _)
DigitsVal(ds, acc) ==
    IF ds = <<>> THEN acc ELSE DigitsVal(Tail(ds), acc * 10 + DigitVal(Head(ds)))

\* -?(0|[1-9][0-9]*) starting at i
ParseNumber(s, i) ==
    LET neg == s[i] = "-"
        j == IF neg THEN i + 1 ELSE i
        e == IF j <= Len(s) /\ s[j] = "0" THEN j + 1 ELSE DigitsEnd(s, j)
    IN  IF e = j THEN ParseFail
        ELSE LET n == DigitsVal(SubSeq(s, j, e - 1), 0)
             IN  ParseOk(PyInt(IF neg THEN 0 - n ELSE n), e)

ParseString(s, i) ==
    LET e == StringEnd(s, i + 1)
    IN  IF e = 0 THEN ParseFail ELSE ParseOk(PyStr(SubSeq(s, i + 1, e - 1)), e + 1)

RECURSIVE ParseValue(_, _)
RECURSIVE ParseElems(_, _, _)
RECURSIVE ParseMembers(_, _, _)

\* what follows an element of a list: "]" ends it, "," continues it
ParseElemsNext(s, j, xs) ==
    IF j > Len(s) THEN ParseFail
    ELSE IF s[j] = "]" THEN ParseOk(PyList(xs), j + 1)
    ELSE IF s[j] = "," THEN ParseElems(s, j + 1, xs)
    ELSE ParseFail

\* after "[" and at least one position: value ("," value)* "]"
ParseElems(s, i, acc) ==
    Bind(ParseValue(s, i), LAMBDA r :
        IF ~r.ok THEN ParseFail
        ELSE ParseElemsNext(s, SkipWs(s, r.i), Append(acc, r.v)))

\* what follows a member of an object: "}" ends it, "," continues it
ParseMembersNext(s, j, d) ==
    IF j > Len(s) THEN ParseFail
    ELSE IF s[j] = "}" THEN ParseOk(d, j + 1)
    ELSE IF s[j] = "," THEN ParseMembers(s, j + 1, d)
    ELSE ParseFail

\* the ":" and the value of the member whose key k was read
ParseMemberValue(s, c, k, acc) ==
    IF c > Len(s) \/ s[c] # ":" THEN ParseFail
    ELSE Bind(ParseValue(s, c + 1), LAMBDA r :
             IF ~r.ok THEN ParseFail
             ELSE ParseMembersNext(s, SkipWs(s, r.i), SetKey(acc, k, r.v)))

\* the key that starts at k0
ParseMemberKey(s, k0, acc) ==
    IF k0 > Len(s) \/ s[k0] # "\"" THEN ParseFail
    ELSE Bind(ParseString(s, k0), LAMBDA k :
             IF ~k.ok THEN ParseFail
             ELSE ParseMemberValue(s, SkipWs(s, k.i), k.v.s, acc))

\* after "{": string ":" value ("," string ":" value)* "}"; a repeated key keeps
\* its first position and takes the last value
ParseMembers(s, i, acc) == ParseMemberKey(s, SkipWs(s, i), acc)

\* the value that starts at i, the first position that is no white space
ParseValueAt(s, i) ==
    IF i > Len(s) THEN ParseFail
    ELSE IF s[i] = "n"
    THEN (IF LitAt(s, i, <<"n", "u", "l", "l">>) THEN ParseOk(PyNone, i + 4) ELSE ParseFail)
    ELSE IF s[i] = "t"
    THEN (IF LitAt(s, i, <<"t", "r", "u", "e">>) THEN ParseOk(PyBool(TRUE), i + 4) ELSE ParseFail)
    ELSE IF s[i] = "f"
    THEN (IF LitAt(s, i, <<"f", "a", "l", "s", "e">>) THEN ParseOk(PyBool(FALSE), i + 5) ELSE ParseFail)
    ELSE IF s[i] = "\"" THEN ParseString(s, i)
    ELSE IF s[i] = "-" \/ IsDigit(s[i]) THEN ParseNumber(s, i)
    ELSE IF s[i] = "["
    THEN (IF SkipWs(s, i + 1) <= Len(s) /\ s[SkipWs(s, i + 1)] = "]"
          THEN ParseOk(PyList(<<>>), SkipWs(s, i + 1) + 1)
          ELSE ParseElems(s, i + 1, <<>>))
    ELSE IF s[i] = "{"
    THEN (IF SkipWs(s, i + 1) <= Len(s) /\ s[SkipWs(s, i + 1)] = "}"
          THEN ParseOk(PyDict(<<>>), SkipWs(s, i + 1) + 1)
          ELSE ParseMembers(s, i + 1, PyDict(<<>>)))
    ELSE ParseFail

ParseValue(s, i0) == ParseValueAt(s, SkipWs(s, i0))

\* json.loads(text): [ok, v]; ok = FALSE stands for json.JSONDecodeError
json_loads(s) ==
    Bind(ParseValue(s, 1), LAMBDA r :
        IF r.ok /\ SkipWs(s, r.i) > Len(s) THEN [ok |-> TRUE, v |-> r.v]
        ELSE [ok |-> FALSE, v |-> PyNone])

IndentWidth == 4
RECURSIVE Spaces(_)
Spaces(n) == IF n = 0 THEN <<>> ELSE <<" ">> \o Spaces(n - 1)

\* json.dumps(v, ensure_ascii=False, indent=4) when pretty, json.dumps(v) otherwise
RECURSIVE json_format(_, _, _)
json_format(v, pretty, level) ==
    LET open == IF pretty THEN <<"\n">> \o Spaces(IndentWidth * (level + 1)) ELSE <<>>
        sep == IF pretty THEN <<",">> \o open ELSE <<",", " ">>
        close == IF pretty THEN <<"\n">> \o Spaces(IndentWidth * level) ELSE <<>>
    IN  IF v.t = "None" THEN <<"n", "u", "l", "l">>
        ELSE IF v.t = "bool"
        THEN (IF v.b THEN <<"t", "r", "u", "e">> ELSE <<"f", "a", "l", "s", "e">>)
        ELSE IF v.t = "int" THEN IntStr(v.n)
        ELSE IF v.t = "str" THEN <<"\"">> \o v.s \o <<"\"">>
        ELSE IF v.t = "list"
        THEN (IF v.xs = <<>> THEN <<"[", "]">>
              ELSE <<"[">> \o open
                   \o Join([i \in 1..Len(v.xs) |-> json_format(v.xs[i], pretty, level + 1)], sep)
                   \o close \o <<"]">>)
        ELSE (IF v.kv = <<>> THEN <<"{", "}">>
              ELSE <<"{">> \o open
                   \o Join([i \in 1..Len(v.kv) |->
                              <<"\"">> \o v.kv[i][1] \o <<"\"", ":", " ">>
                              \o json_format(v.kv[i][2], pretty, level + 1)], sep)
                   \o close \o <<"}">>)
json_dump(v) == json_format(v, TRUE, 0)
json_dumps(v) == json_format(v, FALSE, 0)

(***************************************************************************)
(* Field resolver                                                          *)
(***************************************************************************)
\* json_console.get_nested_value: the loop over parts
RECURSIVE nested_walk(_, _)
nested_walk(current, parts) ==
    IF parts = <<>> THEN current
    ELSE IF ~isinstance_dict(current) THEN PyNone
    ELSE IF ~HasKey(current, Head(parts)) THEN PyNone
    ELSE nested_walk(GetKey(current, Head(parts)), Tail(parts))

\* get_nested_value that keeps the node it stopped at
RECURSIVE partial_walk(_, _)
partial_walk(current, parts) ==
    IF parts = <<>> THEN current
    ELSE IF ~isinstance_dict(current) \/ ~HasKey(current, Head(parts)) THEN current
    ELSE partial_walk(GetKey(current, Head(parts)), Tail(parts))
get_nested_value_partial(record, field_path) == partial_walk(record, Split(field_path, "."))

get_nested_value(record, field_path) == nested_walk(record, Split(field_path, "."))

\* db_console.get_nested_value: the loop over parts
RECURSIVE db_nested_walk(_, _)
db_nested_walk(current, parts) ==
    IF parts = <<>> THEN current
    ELSE IF isinstance_dict(current) /\ HasKey(current, Head(parts))
    THEN db_nested_walk(GetKey(current, Head(parts)), Tail(parts))
    ELSE PyNone

db_get_nested_value(record, field_path) == db_nested_walk(record, Split(field_path, "."))

(***************************************************************************)
(* Match engine and search                                                 *)
(* A search's arguments: [value, field, contains, icontains, regex], field *)
(* the list of --field paths.  A predicate's outcome is "True", "False" or *)
(* the name of the exception it raises.                                    *)
(***************************************************************************)
PyBoolStr(b) == IF b THEN "True" ELSE "False"

\* json_console.do_search: how args.value is interpreted
search_value_of(args) ==
    IF args.regex \/ args.contains \/ args.icontains THEN PyStr(args.value)
    ELSE Bind(json_loads(args.value), LAMBDA r : IF r.ok THEN r.v ELSE PyStr(args.value))

\* do_search.matches with the contains test folding case as well
matches_folded(args, search_value, field_val) ==
    IF args.regex THEN "NameError"
    ELSE IF args.icontains \/ args.contains
    THEN PyBoolStr(Contains(Lower(py_str(field_val)), Lower(py_str(search_value))))
    ELSE PyBoolStr(py_eq(field_val, search_value))

\* json_console.do_search.matches; neither module imports re, so the name re is
\* unbound when the regex branch runs
matches(args, search_value, field_val) ==
    IF args.regex THEN "NameError"
    ELSE IF args.icontains
    THEN PyBoolStr(Contains(Lower(py_str(field_val)), Lower(py_str(search_value))))
    ELSE IF args.contains
    THEN PyBoolStr(Contains(py_str(field_val), py_str(search_value)))
    ELSE PyBoolStr(py_eq(field_val, search_value))

NoHit == [exc |-> "none", hit |-> FALSE, field |-> <<>>, value |-> PyNone]
Hit(field, field_val) == [exc |-> "none", hit |-> TRUE, field |-> field, value |-> field_val]
Raised(exc) == [exc |-> exc, hit |-> FALSE, field |-> <<>>, value |-> PyNone]

\* the results list after one record was looked at
with_hit(results, idx, r) ==
    IF r.hit THEN Append(results, [idx |-> idx, field |-> r.field, value |-> r.value])
    ELSE results

\* json_console.do_search: the loop over args.field for one record, which stops
\* at the first field that matches
RECURSIVE search_fields(_, _, _, _)
search_fields(args, search_value, record, fields) ==
    IF fields = <<>> THEN NoHit
    ELSE Bind(get_nested_value(record, Head(fields)), LAMBDA field_val :
         Bind(IF field_val # PyNone THEN matches(args, search_value, field_val) ELSE "False",
              LAMBDA m :
                  IF m = "True" THEN Hit(Head(fields), field_val)
                  ELSE IF m = "False"
                  THEN search_fields(args, search_value, record, Tail(fields))
                  ELSE Raised(m)))

\* json_console.do_search: the loop over the items of a list document
RECURSIVE search_items(_, _, _, _, _)
search_items(args, search_value, items, idx, results) ==
    IF idx > Len(items) THEN [exc |-> "none", results |-> results]
    ELSE IF ~isinstance_dict(items[idx])
    THEN search_items(args, search_value, items, idx + 1, results)
    ELSE Bind(search_fields(args, search_value, items[idx], args.field), LAMBDA r :
             IF r.exc # "none" THEN [exc |-> r.exc, results |-> results]
             ELSE search_items(args, search_value, items, idx + 1,
                               with_hit(results, idx, r)))

\* json_console.do_search on a loaded document: [exc, results]
search_document(args, document) ==
    IF isinstance_dict(document) \/ isinstance_list(document)
    THEN search_items(args, search_value_of(args),
                      IF isinstance_dict(document) THEN <<document>> ELSE document.xs,
                      1, <<>>)
    ELSE [exc |-> "none", results |-> <<>>]

\* db_console.do_search: use_json and search_value, as [use_json, search_value]
db_search_value_of(args) ==
    IF args.contains \/ args.icontains \/ args.regex
    THEN [use_json |-> FALSE, search_value |-> PyStr(args.value)]
    ELSE Bind(json_loads(args.value), LAMBDA r :
             IF r.ok THEN [use_json |-> TRUE, search_value |-> r.v]
             ELSE [use_json |-> FALSE, search_value |-> PyStr(args.value)])

\* db_console.do_search: the test of one resolved, non-None field value
db_field_matches(args, sv, field_val) ==
    IF args.regex THEN "NameError"
    ELSE IF args.icontains
    THEN PyBoolStr(Contains(Lower(py_str(field_val)), Lower(sv.search_value.s)))
    ELSE IF args.contains
    THEN PyBoolStr(Contains(py_str(field_val), sv.search_value.s))
    ELSE IF sv.use_json THEN PyBoolStr(py_eq(field_val, sv.search_value))
    ELSE PyBoolStr(py_str(field_val) = args.value)

\* db_console.do_search: the loop over args.field for one record
RECURSIVE db_search_fields(_, _, _, _)
db_search_fields(args, sv, record, fields) ==
    IF fields = <<>> THEN NoHit
    ELSE Bind(db_get_nested_value(record, Head(fields)), LAMBDA field_val :
         Bind(IF field_val # PyNone THEN db_field_matches(args, sv, field_val) ELSE "False",
              LAMBDA m :
                  IF m = "True" THEN Hit(Head(fields), field_val)
                  ELSE IF m = "False" THEN db_search_fields(args, sv, record, Tail(fields))
                  ELSE Raised(m)))

\* db_console.do_search: the loop over self.db.all()
RECURSIVE db_search_records(_, _, _, _, _)
db_search_records(args, sv, records, idx, results) ==
    IF idx > Len(records) THEN [exc |-> "none", results |-> results]
    ELSE Bind(db_search_fields(args, sv, records[idx], args.field), LAMBDA r :
             IF r.exc # "none" THEN [exc |-> r.exc, results |-> results]
             ELSE db_search_records(args, sv, records, idx + 1, with_hit(results, idx, r)))

(***************************************************************************)
(* Fuzzy search                                                            *)
(* A fuzzy search's arguments: [search_term, field, threshold].            *)
(***************************************************************************)
\* one row of the table of longest common subsequences: row[j] for the prefix
\* of s1 that ends with c and the first j characters of s2, prev the row before
RECURSIVE lcs_row(_, _, _, _, _)
lcs_row(prev, c, s2, j, row) ==
    IF j > Len(s2) THEN row
    ELSE Bind(IF c = s2[j] THEN (IF j = 1 THEN 0 ELSE prev[j - 1]) + 1
              ELSE IF prev[j] >= (IF j = 1 THEN 0 ELSE row[j - 1]) THEN prev[j]
              ELSE row[j - 1],
              LAMBDA cell : lcs_row(prev, c, s2, j + 1, Append(row, cell)))

RECURSIVE lcs_rows(_, _, _, _)
lcs_rows(s1, s2, i, prev) ==
    IF i > Len(s1) THEN prev
    ELSE Bind(lcs_row(prev, s1[i], s2, 1, <<>>), LAMBDA row : lcs_rows(s1, s2, i + 1, row))

\* the length of the longest common subsequence of two strings
lcs_length(s1, s2) ==
    IF s2 = <<>> THEN 0
    ELSE lcs_rows(s1, s2, 1, [j \in 1..Len(s2) |-> 0])[Len(s2)]

\* round(n / d) of Python for n >= 0 and d > 0: a half goes to the even side
py_round(n, d) ==
    IF 2 * (n % d) < d THEN n \div d
    ELSE IF 2 * (n % d) > d THEN (n \div d) + 1
    ELSE IF (n \div d) % 2 = 0 THEN n \div d
    ELSE (n \div d) + 1

\* fuzz.ratio(s1, s2): the share of the characters of the two strings that lie
\* on a longest common subsequence, as a rounded percentage
fuzz_ratio(s1, s2) ==
    IF Len(s1) + Len(s2) = 0 THEN 100
    ELSE py_round(200 * lcs_length(s1, s2), Len(s1) + Len(s2))

\* list.sort(key=score, reverse=True), one element put in place: behind every
\* element of a score that is not lower, the sort being stable
RECURSIVE sort_insert(_, _)
sort_insert(sorted, e) ==
    IF sorted = <<>> THEN <<e>>
    ELSE IF Head(sorted).score >= e.score THEN <<Head(sorted)>> \o sort_insert(Tail(sorted), e)
    ELSE <<e>> \o sorted

\* a sort by falling score that takes the elements last to first, so that
\* elements of one score come out in the reverse of the order they were found in
RECURSIVE sort_ties_reversed(_, _)
sort_ties_reversed(results, sorted) ==
    IF results = <<>> THEN sorted
    ELSE sort_insert(sort_ties_reversed(Tail(results), sorted), Head(results))

\* results.sort(key=lambda x: x[0], reverse=True)
RECURSIVE sort_by_score(_, _)
sort_by_score(results, sorted) ==
    IF results = <<>> THEN sorted
    ELSE sort_by_score(Tail(results), sort_insert(sorted, Head(results)))

\* the loop over args.field with a break behind the first field that qualified,
\* as the loop of do_search has it
RECURSIVE fuzzy_fields_first(_, _, _, _, _, _)
fuzzy_fields_first(shell, args, record, idx, fields, results) ==
    IF fields = <<>> THEN results
    ELSE Bind(IF shell = "db" THEN db_get_nested_value(record, Head(fields))
              ELSE get_nested_value(record, Head(fields)), LAMBDA field_val :
         Bind(IF field_val # PyNone THEN fuzz_ratio(args.search_term, py_str(field_val))
              ELSE -1, LAMBDA score :
             IF field_val # PyNone /\ score >= args.threshold
             THEN Append(results, [idx |-> idx, field |-> Head(fields),
                                   value |-> field_val, score |-> score])
             ELSE fuzzy_fields_first(shell, args, record, idx, Tail(fields), results)))

\* do_fuzzy_search of the console shell ("json" or "db"): the loop over
\* args.field for one record, which scores every field whose value is not None
\* and goes on after a field that qualified
RECURSIVE fuzzy_fields(_, _, _, _, _, _)
fuzzy_fields(shell, args, record, idx, fields, results) ==
    IF fields = <<>> THEN results
    ELSE Bind(IF shell = "db" THEN db_get_nested_value(record, Head(fields))
              ELSE get_nested_value(record, Head(fields)), LAMBDA field_val :
         Bind(IF field_val # PyNone THEN fuzz_ratio(args.search_term, py_str(field_val))
              ELSE -1, LAMBDA score :
             fuzzy_fields(shell, args, record, idx, Tail(fields),
                          IF field_val # PyNone /\ score >= args.threshold
                          THEN Append(results, [idx |-> idx, field |-> Head(fields),
                                                value |-> field_val, score |-> score])
                          ELSE results)))

\* do_fuzzy_search: the loop over the records
RECURSIVE fuzzy_items(_, _, _, _, _)
fuzzy_items(shell, args, items, idx, results) ==
    IF idx > Len(items) THEN results
    ELSE IF ~isinstance_dict(items[idx])
    THEN fuzzy_items(shell, args, items, idx + 1, results)
    ELSE Bind(fuzzy_fields(shell, args, items[idx], idx, args.field, results), LAMBDA r :
             fuzzy_items(shell, args, items, idx + 1, r))

(***************************************************************************)
(* Files, paths and the network                                            *)
(***************************************************************************)
\* None as a file path: no real path, every character of a path is one string
NoPath == <<"None">>
\* Python's truth value of self.file_path: None and "" are false
Truthy(path) == path # NoPath /\ path # <<>>

NoFile == [exists |-> FALSE, text |-> <<>>]
File(text) == [exists |-> TRUE, text |-> text]

\* os.path.exists
path_exists(dsk, path) == path \in DOMAIN dsk /\ dsk[path].exists

\* a write to a file opened with mode "w": it succeeds, or the open fails and the
\* file is as before, or the write fails and leaves the file truncated
WriteOutcomes == {"ok", "open_error", "cut"}
IsFault(w) == w # "ok"
write_file(dsk, path, text, w) ==
    IF w = "open_error" THEN dsk
    ELSE IF w = "ok" THEN [dsk EXCEPT ![path] = File(text)]
    ELSE [dsk EXCEPT ![path] = File(<<>>)]

\* open(path, "r") and json.load: [ok, v]; ok = FALSE stands for the exception
\* of a missing file or of malformed JSON
read_json(dsk, path) ==
    IF ~path_exists(dsk, path) THEN [ok |-> FALSE, v |-> PyNone]
    ELSE json_loads(dsk[path].text)

HTTP == <<"h", "t", "t", "p", ":", "/", "/">>
HTTPS == <<"h", "t", "t", "p", "s", ":", "/", "/">>
is_url(source) == StartsWith(source, HTTP) \/ StartsWith(source, HTTPS)

\* requests.get(url), raise_for_status() and response.json(): [ok, v]
NoResponse == [ok |-> FALSE, text |-> <<>>]
Response(text) == [ok |-> TRUE, text |-> text]
response_json(fetch) ==
    IF ~fetch.ok THEN [ok |-> FALSE, v |-> PyNone] ELSE json_loads(fetch.text)

(***************************************************************************)
(* json_console                                                            *)
(***************************************************************************)
DownloadedJson ==
    <<"d", "o", "w", "n", "l", "o", "a", "d", "e", "d", ".", "j", "s", "o", "n">>

\* Console.save_data: [disk, saves], saves the write attempts made (none or one)
save_data(fp, d, dsk, w) ==
    IF Truthy(fp) /\ d # PyNone
    THEN [disk |-> write_file(dsk, fp, json_dump(d), w),
          saves |-> <<[path |-> fp, doc |-> d, ok |-> w = "ok"]>>]
    ELSE [disk |-> dsk, saves |-> <<>>]

\* Console.load_json without the assignments that put previous_file_path back
load_json_keeps_source(source, fp, d, dsk, fetch, w) ==
    Bind(IF is_url(source) THEN response_json(fetch) ELSE read_json(dsk, source), LAMBDA got :
    Bind(IF is_url(source) THEN DownloadedJson ELSE source, LAMBDA new_path :
        IF ~got.ok \/ ~(isinstance_dict(got.v) \/ isinstance_list(got.v))
        THEN [file_path |-> new_path, data |-> d, disk |-> dsk, err |-> TRUE, saves |-> <<>>]
        ELSE Bind(save_data(new_path, got.v, dsk, w), LAMBDA s :
                 [file_path |-> new_path, data |-> got.v, disk |-> s.disk,
                  err |-> FALSE, saves |-> s.saves])))

\* Console.load_json: [file_path, data, disk, err, saves]
load_json(source, fp, d, dsk, fetch, w) ==
    Bind(fp, LAMBDA previous_file_path :
    Bind(IF is_url(source) THEN response_json(fetch) ELSE read_json(dsk, source), LAMBDA got :
    Bind(IF is_url(source) THEN DownloadedJson ELSE source, LAMBDA new_path :
        IF ~got.ok \/ ~(isinstance_dict(got.v) \/ isinstance_list(got.v))
        THEN [file_path |-> previous_file_path, data |-> d, disk |-> dsk,
              err |-> TRUE, saves |-> <<>>]
        ELSE Bind(save_data(new_path, got.v, dsk, w), LAMBDA s :
                 [file_path |-> new_path, data |-> got.v, disk |-> s.disk,
                  err |-> FALSE, saves |-> s.saves]))))

\* Console.do_load: load_json, then save_data; w1 and w2 are the outcomes of the
\* first and of the second write the command attempts
do_load(source, fp, d, dsk, fetch, w1, w2) ==
    Bind(load_json(Strip(source), fp, d, dsk, fetch, w1), LAMBDA l :
    Bind(save_data(l.file_path, l.data, l.disk, IF l.saves = <<>> THEN w1 ELSE w2), LAMBDA s :
        [file_path |-> l.file_path, data |-> l.data, disk |-> s.disk,
         err |-> l.err, saves |-> l.saves \o s.saves]))

\* Console.do_insert without the save of the paths that report an error
do_insert_unsynced(record_text, fp, d, dsk, w1, w2) ==
    Bind(json_loads(record_text), LAMBDA record :
        IF d # PyNone /\ record.ok /\ isinstance_dict(record.v) /\ isinstance_list(d)
        THEN Bind(save_data(fp, PyList(Append(d.xs, record.v)), dsk, w1), LAMBDA s :
                 [data |-> PyList(Append(d.xs, record.v)), disk |-> s.disk, err |-> FALSE,
                  saves |-> s.saves])
        ELSE [data |-> d, disk |-> dsk, err |-> TRUE, saves |-> <<>>])

\* Console.do_insert without the isinstance(record, dict) test
do_insert_any(record_text, fp, d, dsk, w1, w2) ==
    Bind(json_loads(record_text), LAMBDA record :
    Bind(IF d = PyNone \/ ~record.ok \/ ~isinstance_list(d) THEN [data |-> d, err |-> TRUE]
         ELSE [data |-> PyList(Append(d.xs, record.v)), err |-> FALSE], LAMBDA r :
    Bind(save_data(fp, r.data, dsk, w1), LAMBDA s :
        [data |-> r.data, disk |-> s.disk, err |-> r.err, saves |-> s.saves])))

\* Console.do_insert giving up the appended record when the write fails
do_insert_rollback(record_text, fp, d, dsk, w1, w2) ==
    Bind(json_loads(record_text), LAMBDA record :
        IF d # PyNone /\ record.ok /\ isinstance_dict(record.v) /\ isinstance_list(d)
        THEN Bind(save_data(fp, PyList(Append(d.xs, record.v)), dsk, w1), LAMBDA s :
                 [data |-> IF IsFault(w1) THEN d ELSE PyList(Append(d.xs, record.v)),
                  disk |-> s.disk, err |-> IsFault(w1), saves |-> s.saves])
        ELSE do_insert_any(record_text, fp, d, dsk, w1, w2))

\* Console.do_insert: [data, disk, err, saves]; a record that is no object is
\* saved once before the return and once more by the finally clause
do_insert(record_text, fp, d, dsk, w1, w2) ==
    Bind(json_loads(record_text), LAMBDA record :
    Bind(IF d = PyNone THEN [data |-> d, err |-> TRUE, twice |-> FALSE]
         ELSE IF ~record.ok THEN [data |-> d, err |-> TRUE, twice |-> FALSE]
         ELSE IF ~isinstance_dict(record.v) THEN [data |-> d, err |-> TRUE, twice |-> TRUE]
         ELSE IF isinstance_list(d)
         THEN [data |-> PyList(Append(d.xs, record.v)), err |-> FALSE, twice |-> FALSE]
         ELSE [data |-> d, err |-> TRUE, twice |-> FALSE], LAMBDA r :
    Bind(save_data(fp, r.data, dsk, w1), LAMBDA s1 :
    Bind(IF r.twice THEN save_data(fp, r.data, s1.disk, w2)
         ELSE [disk |-> s1.disk, saves |-> <<>>], LAMBDA s2 :
        [data |-> r.data, disk |-> s2.disk, err |-> r.err,
         saves |-> s1.saves \o s2.saves]))))

\* Console.do_search: [exc, err, results, disk, saves]; an exception that leaves
\* the handler skips the save_data call at its end
do_search(args, fp, d, dsk, w) ==
    Bind(IF d = PyNone THEN [exc |-> "none", results |-> <<>>]
         ELSE search_document(args, d), LAMBDA r :
        IF r.exc # "none"
        THEN [exc |-> r.exc, err |-> FALSE, results |-> r.results, disk |-> dsk,
              saves |-> <<>>]
        ELSE Bind(save_data(fp, d, dsk, w), LAMBDA s :
                 [exc |-> "none", err |-> d = PyNone, results |-> r.results,
                  disk |-> s.disk, saves |-> s.saves]))

\* Console.do_fuzzy_search: [err, results, disk, saves]
do_fuzzy_search(args, fp, d, dsk, w) ==
    Bind(IF isinstance_dict(d) THEN fuzzy_items("json", args, <<d>>, 1, <<>>)
         ELSE IF isinstance_list(d) THEN fuzzy_items("json", args, d.xs, 1, <<>>)
         ELSE <<>>, LAMBDA results :
    Bind(save_data(fp, d, dsk, w), LAMBDA s :
        [err |-> d = PyNone, results |-> sort_by_score(results, <<>>), disk |-> s.disk,
         saves |-> s.saves]))

\* the EDITOR of the environment: whether the variable is set, whether the
\* command it names starts, and the text the editor leaves in the file, if any
Editor(set, starts, writes, text) ==
    [set |-> set, starts |-> starts, writes |-> writes, text |-> text]

\* subprocess.run([editor, path]): the disk when the call returns
run_editor(editor, path, dsk) ==
    IF editor.starts /\ editor.writes THEN [dsk EXCEPT ![path] = File(editor.text)]
    ELSE dsk

\* Console.do_open_json without the save_data call behind the editor, as
\* do_open_json of db_console has it
do_open_json_unsynced(fp, d, dsk, editor, w) ==
    IF ~Truthy(fp) \/ ~path_exists(dsk, fp) \/ ~editor.set
    THEN Bind(save_data(fp, d, dsk, w), LAMBDA s :
             [err |-> TRUE, disk |-> s.disk, saves |-> s.saves])
    ELSE [err |-> ~editor.starts, disk |-> run_editor(editor, fp, dsk), saves |-> <<>>]

\* Console.do_open_json: [err, disk, saves]
do_open_json(fp, d, dsk, editor, w) ==
    IF ~Truthy(fp) \/ ~path_exists(dsk, fp) \/ ~editor.set
    THEN Bind(save_data(fp, d, dsk, w), LAMBDA s :
             [err |-> TRUE, disk |-> s.disk, saves |-> s.saves])
    ELSE Bind(save_data(fp, d, run_editor(editor, fp, dsk), w), LAMBDA s :
             [err |-> ~editor.starts, disk |-> s.disk, saves |-> s.saves])

\* Console.do_status: [lines, disk, saves], lines what the command prints: the
\* loaded file and the kind and size of the data
do_status(fp, d, dsk, w) ==
    Bind(save_data(fp, d, dsk, w), LAMBDA s :
        [lines |-> <<[file |-> IF Truthy(fp) THEN fp ELSE NoPath,
                      kind |-> d.t,
                      size |-> IF isinstance_dict(d) THEN Len(d.kv)
                               ELSE IF isinstance_list(d) THEN Len(d.xs)
                               ELSE 0]>>,
         disk |-> s.disk, saves |-> s.saves])

(***************************************************************************)
(* db_console                                                              *)
(* TinyDB keeps no copy of the table: UTF8ReplaceJSONStorage.read opens    *)
(* the file again on every read, so the handle is the path it is bound to. *)
(***************************************************************************)
DefaultTable == <<"_", "d", "e", "f", "a", "u", "l", "t">>
TempDir == <<"t", "e", "m", "p", "/">>
DotJson == <<".", "j", "s", "o", "n">>
DbJson == <<".", "d", "b">> \o DotJson

\* index of the last occurrence of c in s, 0 when there is none
RECURSIVE LastIndex(_, _, _)
LastIndex(s, c, i) == IF i = 0 \/ s[i] = c THEN i ELSE LastIndex(s, c, i - 1)

\* os.path.basename
path_basename(path) == SubSeq(path, LastIndex(path, "/", Len(path)) + 1, Len(path))

\* os.path.splitext(path)[0]: the extension starts at the last dot of the last
\* component, unless only dots precede it there
path_root(path) ==
    LET slash == LastIndex(path, "/", Len(path))
        dot == LastIndex(path, ".", Len(path))
    IN  IF dot > slash + 1 /\ \E i \in (slash + 1)..(dot - 1) : path[i] # "."
        THEN SubSeq(path, 1, dot - 1)
        ELSE path

\* index of the first character of s at or after i that is in stops, Len(s) + 1
\* when there is none
RECURSIVE FirstOf(_, _, _)
FirstOf(s, stops, i) ==
    IF i > Len(s) \/ s[i] \in stops THEN i ELSE FirstOf(s, stops, i + 1)

\* urlparse(url).path for an http(s) URL
url_path(url) ==
    LET host == IF StartsWith(url, HTTPS) THEN Len(HTTPS) + 1 ELSE Len(HTTP) + 1
        from == FirstOf(url, {"/", "?", "#"}, host)
        to == FirstOf(url, {"?", "#"}, from)
    IN  SubSeq(url, from, to - 1)

\* one file operation of a db_console command, as the command's record keeps it
Op(op, path, ok) == [op |-> op, path |-> path, ok |-> ok]

\* main.download_json: [ok, path, disk, ops]; it fetches the URL again
download_json(url, dsk, fetch, w) ==
    Bind(path_basename(url_path(url)), LAMBDA name :
    Bind(TempDir \o (IF EndsWith(name, DotJson) THEN name ELSE name \o DotJson), LAMBDA path :
    Bind(response_json(fetch), LAMBDA got :
        IF ~got.ok THEN [ok |-> FALSE, path |-> path, disk |-> dsk, ops |-> <<>>]
        ELSE [ok |-> w = "ok", path |-> path,
              disk |-> write_file(dsk, path, json_dump(got.v), w),
              ops |-> <<Op("download", path, w = "ok")>>])))

\* convert_to_tinydb_format: the table built from the list
RECURSIVE tinydb_table(_, _, _)
tinydb_table(items, i, acc) ==
    IF i > Len(items) THEN acc
    ELSE tinydb_table(items, i + 1, SetKey(acc, IntStr(i), items[i]))
\* the TinyDB file of a list numbered as enumerate does without start=1
tinydb_format_from_zero(items) ==
    PyDict(<< <<DefaultTable,
               PyDict([i \in 1..Len(items) |-> <<IntStr(i - 1), items[i]>>])>> >>)
tinydb_format(items) == PyDict(<< <<DefaultTable, tinydb_table(items, 1, PyDict(<<>>))>> >>)

\* convert_to_tinydb_format: [ok, path, disk, ops]; ok = FALSE is the None
\* it returns when the file cannot be written
convert_to_tinydb_format(d, original_filename, dsk, w) ==
    Bind(path_root(original_filename) \o DbJson, LAMBDA new_filename :
        [ok |-> w = "ok", path |-> new_filename,
         disk |-> write_file(dsk, new_filename, json_dump(tinydb_format(d.xs)), w),
         ops |-> <<Op("convert", new_filename, w = "ok")>>])

\* Console.load_json of db_console, a load that fails: the previous file_path
\* and the previous handle stay
db_load_failed(fp, handle, dk, ops) ==
    [file_path |-> fp, db |-> handle, disk |-> dk, err |-> TRUE, ops |-> ops]

\* Console.load_json of db_console, the TinyDB(...) call that ends it
db_load_open(path, fp, handle, dk, ops, open_ok) ==
    IF open_ok
    THEN [file_path |-> path, db |-> path, disk |-> dk, err |-> FALSE,
          ops |-> Append(ops, Op("open", path, TRUE))]
    ELSE db_load_failed(fp, handle, dk, Append(ops, Op("open", path, FALSE)))

\* Console.load_json of db_console: [file_path, db, disk, err, ops].  open_ok
\* tells whether TinyDB(path) can open the file.
db_load_json(source, fp, handle, dsk, fetch, fetch2, w, w2, open_ok) ==
    Bind(IF is_url(source) THEN response_json(fetch) ELSE read_json(dsk, source), LAMBDA got :
        IF ~got.ok THEN db_load_failed(fp, handle, dsk, <<>>)
        ELSE Bind(IF is_url(source) THEN download_json(source, dsk, fetch2, w)
                  ELSE [ok |-> TRUE, path |-> source, disk |-> dsk, ops |-> <<>>], LAMBDA dl :
            IF ~dl.ok THEN db_load_failed(fp, handle, dl.disk, dl.ops)
            ELSE IF isinstance_list(got.v)
            THEN Bind(convert_to_tinydb_format(got.v, dl.path, dl.disk, w2), LAMBDA cv :
                     IF cv.ok
                     THEN db_load_open(cv.path, fp, handle, cv.disk, dl.ops \o cv.ops, open_ok)
                     ELSE db_load_failed(fp, handle, cv.disk, dl.ops \o cv.ops))
            ELSE IF isinstance_dict(got.v)
            THEN (IF ~HasKey(got.v, DefaultTable)
                     \/ ~isinstance_dict(GetKey(got.v, DefaultTable))
                  THEN db_load_failed(fp, handle, dl.disk, dl.ops)
                  ELSE db_load_open(dl.path, fp, handle, dl.disk, dl.ops, open_ok))
            ELSE db_load_failed(fp, handle, dl.disk, dl.ops)))

\* Console.do_load of db_console
db_do_load(source, fp, handle, dsk, fetch, fetch2, w, w2, open_ok) ==
    db_load_json(Strip(source), fp, handle, dsk, fetch, fetch2, w, w2, open_ok)

IsNumeric(s) == s # <<>> /\ \A i \in 1..Len(s) : IsDigit(s[i])

\* the default table of the parsed storage file: [exc, table]
db_table_of(tables) ==
    IF ~tables.ok THEN [exc |-> "JSONDecodeError", table |-> <<>>]
    ELSE IF tables.v = PyNone THEN [exc |-> "none", table |-> <<>>]
    ELSE IF ~isinstance_dict(tables.v) THEN [exc |-> "TypeError", table |-> <<>>]
    ELSE IF ~HasKey(tables.v, DefaultTable) THEN [exc |-> "none", table |-> <<>>]
    ELSE Bind(GetKey(tables.v, DefaultTable), LAMBDA raw :
             IF ~isinstance_dict(raw) THEN [exc |-> "AttributeError", table |-> <<>>]
             ELSE IF \E i \in 1..Len(raw.kv) : ~IsNumeric(raw.kv[i][1])
             THEN [exc |-> "ValueError", table |-> <<>>]
             ELSE [exc |-> "none", table |-> raw.kv])

\* the storage file as UTF8ReplaceJSONStorage.read parses it: [ok, v]
storage_read(dsk, path) ==
    IF ~path_exists(dsk, path) THEN [ok |-> TRUE, v |-> PyNone]
    ELSE json_loads(dsk[path].text)

\* TinyDB's read of the default table from the storage file: [exc, table], table
\* the sequence of <<document id, document>> pairs in file order
db_read_table(dsk, path) == db_table_of(storage_read(dsk, path))

\* dict(doc), as TinyDB's Document does to every value of the table; the documents
\* of the model are dicts, scalars or empty lists
DocumentFails(doc) == ~isinstance_dict(doc) /\ doc # PyList(<<>>)
DocumentOf(doc) == IF isinstance_dict(doc) THEN doc ELSE PyDict(<<>>)

\* self.db.all(): [exc, records]
db_all(dsk, path) ==
    Bind(db_read_table(dsk, path), LAMBDA t :
        IF t.exc # "none" THEN [exc |-> t.exc, records |-> <<>>]
        ELSE IF \E i \in 1..Len(t.table) : DocumentFails(t.table[i][2])
        THEN [exc |-> "TypeError", records |-> <<>>]
        ELSE [exc |-> "none",
              records |-> [i \in 1..Len(t.table) |-> DocumentOf(t.table[i][2])]])

\* Console.ensure_db: [ok, db, ops]; a missing handle is reopened from file_path
ensure_db(handle, fp, dsk, open_ok) ==
    IF handle # NoPath THEN [ok |-> TRUE, db |-> handle, ops |-> <<>>]
    ELSE IF Truthy(fp) /\ path_exists(dsk, fp)
    THEN [ok |-> open_ok, db |-> IF open_ok THEN fp ELSE handle,
          ops |-> <<Op("open", fp, open_ok)>>]
    ELSE [ok |-> FALSE, db |-> handle, ops |-> <<>>]

\* the largest document id of a table, 0 for an empty one
RECURSIVE MaxDocId(_, _)
MaxDocId(table, acc) ==
    IF table = <<>> THEN acc
    ELSE MaxDocId(Tail(table),
                  IF DigitsVal(Head(table)[1], 0) > acc THEN DigitsVal(Head(table)[1], 0)
                  ELSE acc)

\* the text TinyDB writes after an insert: the tables of the file with the
\* default table extended by the record under the next free id
tinydb_updated(tables, table, record) ==
    json_dumps(SetKey(IF tables.ok /\ isinstance_dict(tables.v) THEN tables.v
                      ELSE PyDict(<<>>),
                      DefaultTable,
                      PyDict(Append(table, <<IntStr(MaxDocId(table, 0) + 1), record>>))))

\* self.db.insert(record): [exc, disk, ops]; TinyDB refuses what is no mapping,
\* gives the document the next free id and rewrites the storage file
tinydb_insert(record, dsk, path, w) ==
    IF ~isinstance_dict(record) THEN [exc |-> "ValueError", disk |-> dsk, ops |-> <<>>]
    ELSE Bind(storage_read(dsk, path), LAMBDA tables :
         Bind(db_table_of(tables), LAMBDA t :
             IF t.exc # "none" THEN [exc |-> t.exc, disk |-> dsk, ops |-> <<>>]
             ELSE [exc |-> IF IsFault(w) THEN "OSError" ELSE "none",
                   disk |-> write_file(dsk, path, tinydb_updated(tables, t.table, record), w),
                   ops |-> <<Op("insert", path, w = "ok")>>]))

\* Console.insert_record: [db, disk, err, ops]
insert_record(record_str, handle, fp, dsk, w, open_ok) ==
    Bind(ensure_db(handle, fp, dsk, open_ok), LAMBDA e :
        IF ~e.ok THEN [db |-> e.db, disk |-> dsk, err |-> TRUE, ops |-> e.ops]
        ELSE Bind(json_loads(record_str), LAMBDA record :
                 IF ~record.ok THEN [db |-> e.db, disk |-> dsk, err |-> TRUE, ops |-> e.ops]
                 ELSE Bind(tinydb_insert(record.v, dsk, e.db, w), LAMBDA ins :
                          [db |-> e.db, disk |-> ins.disk, err |-> ins.exc # "none",
                           ops |-> e.ops \o ins.ops])))

\* Console.do_search of db_console: [db, exc, err, results, ops]
db_do_search(args, handle, fp, dsk, open_ok) ==
    Bind(ensure_db(handle, fp, dsk, open_ok), LAMBDA e :
        IF ~e.ok
        THEN [db |-> e.db, exc |-> "none", err |-> TRUE, results |-> <<>>, ops |-> e.ops]
        ELSE Bind(db_all(dsk, e.db), LAMBDA all :
                 IF all.exc # "none"
                 THEN [db |-> e.db, exc |-> all.exc, err |-> FALSE, results |-> <<>>,
                       ops |-> e.ops]
                 ELSE Bind(db_search_records(args, db_search_value_of(args), all.records,
                                             1, <<>>), LAMBDA r :
                          [db |-> e.db, exc |-> r.exc, err |-> FALSE,
                           results |-> r.results, ops |-> e.ops])))

\* Console.do_fuzzy_search of db_console: [db, exc, err, results, ops]
db_do_fuzzy_search(args, handle, fp, dsk, open_ok) ==
    Bind(ensure_db(handle, fp, dsk, open_ok), LAMBDA e :
        IF ~e.ok
        THEN [db |-> e.db, exc |-> "none", err |-> TRUE, results |-> <<>>, ops |-> e.ops]
        ELSE Bind(db_all(dsk, e.db), LAMBDA all :
                 IF all.exc # "none"
                 THEN [db |-> e.db, exc |-> all.exc, err |-> FALSE, results |-> <<>>,
                       ops |-> e.ops]
                 ELSE Bind(fuzzy_items("db", args, all.records, 1, <<>>), LAMBDA found :
                          [db |-> e.db, exc |-> "none", err |-> FALSE,
                           results |-> sort_by_score(found, <<>>), ops |-> e.ops])))

\* Console.do_open_json of db_console: [err, disk]; nothing is written back
db_do_open_json(fp, dsk, editor) ==
    IF fp = NoPath \/ ~path_exists(dsk, fp) \/ ~editor.set
    THEN [err |-> TRUE, disk |-> dsk]
    ELSE [err |-> ~editor.starts, disk |-> run_editor(editor, fp, dsk)]

\* Console.do_status of db_console: [lines], the loaded file and the number of
\* records or the exception that counting them raised
db_do_status(fp, handle, dsk) ==
    [lines |-> <<[file |-> IF Truthy(fp) THEN fp ELSE NoPath,
                  kind |-> IF handle = NoPath THEN "None" ELSE db_all(dsk, handle).exc,
                  size |-> IF handle = NoPath THEN 0
                           ELSE Len(db_all(dsk, handle).records)]>>]

(***************************************************************************)
(* The environment of a session: files, URL, payloads, searches            *)
(***************************************************************************)
MaxRecords == 3
MaxIOFaults == 1

KeyA == <<"a">>
KeyB == <<"b">>
KeyC == <<"c">>
KeyD == <<"d">>
RecA(n) == PyDict(<< <<KeyA, PyInt(n)>> >>)

ArrayJson == <<"a", ".", "j", "s", "o", "n">>
TableJson == <<"t", ".", "j", "s", "o", "n">>
BadJson == <<"x", ".", "j", "s", "o", "n">>
ScalarJson == <<"s", ".", "j", "s", "o", "n">>
MissingJson == <<"m", ".", "j", "s", "o", "n">>
ArrayDbJson == <<"a", ".", "d", "b", ".", "j", "s", "o", "n">>
Url == HTTP \o <<"h", "/", "u">>
TempUJson == TempDir \o <<"u", ".", "j", "s", "o", "n">>
TempUDbJson == TempDir \o <<"u", ".", "d", "b", ".", "j", "s", "o", "n">>

ArrayDoc == PyList(<<RecA(1), RecA(2)>>)
TableDoc == tinydb_format(<<RecA(1), RecA(2)>>)
WebArrayDoc == PyList(<<RecA(7), PyInt(8)>>)
WebTableDoc == tinydb_format(<<RecA(8), RecA(9)>>)

Paths ==
    {ArrayJson, TableJson, BadJson, ScalarJson, MissingJson, ArrayDbJson,
     DownloadedJson, TempUJson, TempUDbJson}

InitDisk ==
    [p \in Paths |->
        IF p = ArrayJson THEN File(json_dumps(ArrayDoc))
        ELSE IF p = TableJson THEN File(json_dump(TableDoc))
        ELSE IF p = BadJson THEN File(<<"{">>)
        ELSE IF p = ScalarJson THEN File(<<"5">>)
        ELSE NoFile]

\* what the server may answer to one request: no answer, a table, a scalar and,
\* to json_console, an array
WebResponses ==
    {NoResponse, Response(json_dumps(WebTableDoc)), Response(<<"5">>)}
    \cup (IF console = "json" THEN {Response(json_dumps(WebArrayDoc))} ELSE {})

\* what the user may type after load
LoadSources ==
    {ArrayJson, TableJson, BadJson, <<" ">> \o ScalarJson \o <<" ">>, MissingJson, Url}

\* insert payloads: an object, an array, a scalar, malformed text
InsertRecord ==
    <<"{", "\"", "a", "\"", ":", "3", ",", " ", "\"", "b", "\"", ":", "n", "u", "l", "l", "}">>
InsertArray == <<"[", "1", "]">>
InsertScalar == <<"3">>
InsertBad == <<"{", "a">>
InsertPayloads == {InsertRecord, InsertArray, InsertScalar, InsertBad}

SearchArgs(value, fields, contains, icontains, regex) ==
    [value |-> value, field |-> fields, contains |-> contains, icontains |-> icontains,
     regex |-> regex]
QNull == <<"n", "u", "l", "l">>

\* the searches of a session
SessionSearches ==
    {SearchArgs(<<"3">>, <<KeyA>>, FALSE, FALSE, FALSE),
     SearchArgs(QNull, <<KeyB>>, FALSE, FALSE, FALSE),
     SearchArgs(<<"3">>, <<KeyB, KeyA>>, FALSE, FALSE, TRUE)}

\* --threshold when the option is not given
DefaultThreshold == 80
FuzzyArgs(search_term, fields, threshold) ==
    [search_term |-> search_term, field |-> fields, threshold |-> threshold]

\* the fuzzy search of a session
SessionFuzzySearches == {FuzzyArgs(<<"3">>, <<KeyB, KeyA>>, DefaultThreshold)}

\* the text an editor may leave in the file it was given
EditedText ==
    IF console = "json" THEN json_dumps(PyList(<<RecA(9)>>))
    ELSE json_dumps(tinydb_format(<<RecA(9)>>))
\* EDITOR unset, naming no command, and naming an editor that saves EditedText
Editors ==
    {Editor(FALSE, FALSE, FALSE, <<>>), Editor(TRUE, FALSE, FALSE, <<>>),
     Editor(TRUE, TRUE, TRUE, EditedText)}

\* the outcomes a file operation may have while failures are left to inject; a
\* command is first run with every operation succeeding, which tells the
\* operations it attempts, and failures are drawn for those only
Writes == IF io_faults < MaxIOFaults THEN WriteOutcomes ELSE {"ok"}
Opens == IF io_faults < MaxIOFaults THEN BOOLEAN ELSE {TRUE}
WritesIf(attempted) == IF attempted THEN Writes ELSE {"ok"}
OpensIf(attempted) == IF attempted THEN Opens ELSE {TRUE}
Attempts(ops, op) == \E i \in 1..Len(ops) : ops[i].op = op
Drawn(w) == IF IsFault(w) THEN 1 ELSE 0
DrawnOpen(open_ok) == IF open_ok THEN 0 ELSE 1
FaultsLeft == MaxIOFaults - io_faults

Fetches(source) == IF is_url(Strip(source)) THEN WebResponses ELSE {NoResponse}
\* download_json asks again only after the first request was answered
SecondFetches(fetch) == IF fetch.ok THEN WebResponses ELSE {NoResponse}

\* how many of the file operations of a command failed
RECURSIVE FailedSaves(_)
FailedSaves(saves) ==
    IF saves = <<>> THEN 0
    ELSE (IF Head(saves).ok THEN 0 ELSE 1) + FailedSaves(Tail(saves))

Done(cmd, args, err, exc, results, saves) ==
    [cmd |-> cmd, args |-> args, err |-> err, exc |-> exc, results |-> results,
     saves |-> saves]

(***************************************************************************)
(* The session: one action per command                                     *)
(***************************************************************************)
Init ==
    /\ console \in {"json", "db"}
    /\ data = PyNone
    /\ db = NoPath
    /\ file_path = NoPath
    /\ disk = InitDisk
    /\ out = Done("start", <<>>, FALSE, "none", <<>>, <<>>)
    /\ io_faults = 0

JsonLoad ==
    /\ console = "json"
    /\ \E source \in LoadSources : \E fetch \in Fetches(source) :
         \E r0 \in {do_load(source, file_path, data, disk, fetch, "ok", "ok")} :
         \E w1 \in WritesIf(Len(r0.saves) >= 1), w2 \in WritesIf(Len(r0.saves) >= 2) :
            /\ Drawn(w1) + Drawn(w2) <= FaultsLeft
            /\ \E r \in {IF w1 = "ok" /\ w2 = "ok" THEN r0
                          ELSE do_load(source, file_path, data, disk, fetch, w1, w2)} :
                /\ io_faults' = io_faults + FailedSaves(r.saves)
                /\ data' = r.data
                /\ file_path' = r.file_path
                /\ disk' = r.disk
                /\ out' = Done("load", source, r.err, "none", <<>>, r.saves)
    /\ UNCHANGED <<console, db>>

JsonInsert ==
    /\ console = "json"
    /\ isinstance_list(data) => Len(data.xs) < MaxRecords
    /\ \E record \in InsertPayloads :
         \E r0 \in {do_insert(record, file_path, data, disk, "ok", "ok")} :
         \E w1 \in WritesIf(Len(r0.saves) >= 1), w2 \in WritesIf(Len(r0.saves) >= 2) :
            /\ Drawn(w1) + Drawn(w2) <= FaultsLeft
            /\ \E r \in {IF w1 = "ok" /\ w2 = "ok" THEN r0
                          ELSE do_insert(record, file_path, data, disk, w1, w2)} :
                /\ io_faults' = io_faults + FailedSaves(r.saves)
                /\ data' = r.data
                /\ disk' = r.disk
                /\ out' = Done("insert", record, r.err, "none", <<>>, r.saves)
    /\ UNCHANGED <<console, db, file_path>>

JsonSearch(searches) ==
    /\ console = "json"
    /\ \E args \in searches :
         \E r0 \in {do_search(args, file_path, data, disk, "ok")} :
         \E w \in WritesIf(Len(r0.saves) >= 1) :
         \E r \in {IF w = "ok" THEN r0 ELSE do_search(args, file_path, data, disk, w)} :
            /\ io_faults' = io_faults + FailedSaves(r.saves)
            /\ disk' = r.disk
            /\ out' = Done("search", args, r.err, r.exc, r.results, r.saves)
    /\ UNCHANGED <<console, db, file_path, data>>

JsonFuzzySearch(searches) ==
    /\ console = "json"
    /\ \E args \in searches :
         \E r0 \in {do_fuzzy_search(args, file_path, data, disk, "ok")} :
         \E w \in WritesIf(Len(r0.saves) >= 1) :
         \E r \in {IF w = "ok" THEN r0 ELSE do_fuzzy_search(args, file_path, data, disk, w)} :
            /\ io_faults' = io_faults + FailedSaves(r.saves)
            /\ disk' = r.disk
            /\ out' = Done("fuzzy_search", args, r.err, "none", r.results, r.saves)
    /\ UNCHANGED <<console, db, file_path, data>>

JsonOpenJson ==
    /\ console = "json"
    /\ \E editor \in Editors :
         \E r0 \in {do_open_json(file_path, data, disk, editor, "ok")} :
         \E w \in WritesIf(Len(r0.saves) >= 1) :
         \E r \in {IF w = "ok" THEN r0 ELSE do_open_json(file_path, data, disk, editor, w)} :
            /\ io_faults' = io_faults + FailedSaves(r.saves)
            /\ disk' = r.disk
            /\ out' = Done("open_json", editor, r.err, "none", <<>>, r.saves)
    /\ UNCHANGED <<console, db, file_path, data>>

JsonStatus ==
    /\ console = "json"
    /\ \E r0 \in {do_status(file_path, data, disk, "ok")} :
         \E w \in WritesIf(Len(r0.saves) >= 1) :
         \E r \in {IF w = "ok" THEN r0 ELSE do_status(file_path, data, disk, w)} :
            /\ io_faults' = io_faults + FailedSaves(r.saves)
            /\ disk' = r.disk
            /\ out' = Done("status", <<>>, FALSE, "none", r.lines, r.saves)
    /\ UNCHANGED <<console, db, file_path, data>>

DbLoad ==
    /\ console = "db"
    /\ \E source \in LoadSources :
         \E fetch \in Fetches(source) : \E fetch2 \in SecondFetches(fetch) :
         \E r0 \in {db_do_load(source, file_path, db, disk, fetch, fetch2, "ok", "ok", TRUE)} :
         \E w \in WritesIf(Attempts(r0.ops, "download")),
            w2 \in WritesIf(Attempts(r0.ops, "convert")),
            open_ok \in OpensIf(Attempts(r0.ops, "open")) :
            /\ Drawn(w) + Drawn(w2) + DrawnOpen(open_ok) <= FaultsLeft
            /\ \E r \in {IF w = "ok" /\ w2 = "ok" /\ open_ok THEN r0
                          ELSE db_do_load(source, file_path, db, disk, fetch, fetch2,
                                          w, w2, open_ok)} :
                /\ io_faults + FailedSaves(r.ops) <= MaxIOFaults
                /\ io_faults' = io_faults + FailedSaves(r.ops)
                /\ db' = r.db
                /\ file_path' = r.file_path
                /\ disk' = r.disk
                /\ out' = Done("load", source, r.err, "none", <<>>, r.ops)
    /\ UNCHANGED <<console, data>>

DbTableSize == Len(db_read_table(disk, db).table)

DbInsert ==
    /\ console = "db"
    /\ db # NoPath => DbTableSize < MaxRecords
    /\ \E record \in InsertPayloads :
         \E r0 \in {insert_record(record, db, file_path, disk, "ok", TRUE)} :
         \E w \in WritesIf(Attempts(r0.ops, "insert")),
            open_ok \in OpensIf(Attempts(r0.ops, "open")) :
            /\ Drawn(w) + DrawnOpen(open_ok) <= FaultsLeft
            /\ \E r \in {IF w = "ok" /\ open_ok THEN r0
                          ELSE insert_record(record, db, file_path, disk, w, open_ok)} :
                /\ io_faults' = io_faults + FailedSaves(r.ops)
                /\ db' = r.db
                /\ disk' = r.disk
                /\ out' = Done("insert", record, r.err, "none", <<>>, r.ops)
    /\ UNCHANGED <<console, data, file_path>>

DbSearch(searches) ==
    /\ console = "db"
    /\ \E args \in searches :
         \E r0 \in {db_do_search(args, db, file_path, disk, TRUE)} :
         \E open_ok \in OpensIf(Attempts(r0.ops, "open")) :
         \E r \in {IF open_ok THEN r0 ELSE db_do_search(args, db, file_path, disk, open_ok)} :
            /\ io_faults' = io_faults + FailedSaves(r.ops)
            /\ db' = r.db
            /\ out' = Done("search", args, r.err, r.exc, r.results, r.ops)
    /\ UNCHANGED <<console, data, file_path, disk>>

DbFuzzySearch(searches) ==
    /\ console = "db"
    /\ \E args \in searches :
         \E r0 \in {db_do_fuzzy_search(args, db, file_path, disk, TRUE)} :
         \E open_ok \in OpensIf(Attempts(r0.ops, "open")) :
         \E r \in {IF open_ok THEN r0
                   ELSE db_do_fuzzy_search(args, db, file_path, disk, open_ok)} :
            /\ io_faults' = io_faults + FailedSaves(r.ops)
            /\ db' = r.db
            /\ out' = Done("fuzzy_search", args, r.err, r.exc, r.results, r.ops)
    /\ UNCHANGED <<console, data, file_path, disk>>

DbOpenJson(editors) ==
    /\ console = "db"
    /\ \E editor \in editors :
         \E r \in {db_do_open_json(file_path, disk, editor)} :
            /\ disk' = r.disk
            /\ out' = Done("open_json", editor, r.err, "none", <<>>, <<>>)
    /\ UNCHANGED <<console, data, db, file_path, io_faults>>

DbStatus ==
    /\ console = "db"
    /\ out' = Done("status", <<>>, FALSE, "none", db_do_status(file_path, db, disk).lines,
                   <<>>)
    /\ UNCHANGED <<console, data, db, file_path, disk, io_faults>>

Next ==
    \/ JsonLoad
    \/ JsonInsert
    \/ JsonSearch(SessionSearches)
    \/ JsonFuzzySearch(SessionFuzzySearches)
    \/ JsonOpenJson
    \/ JsonStatus
    \/ DbLoad
    \/ DbInsert
    \/ DbSearch(SessionSearches)

Spec == Init /\ [][Next]_vars

(***************************************************************************)
(* The search engine on its own: a loaded document and one search or one   *)
(* call of the field resolver                                              *)
(***************************************************************************)
Rec1 ==
    PyDict(<< <<KeyA, PyInt(1)>>,
              <<KeyB, PyDict(<< <<KeyC, PyNone>>, <<KeyD, PyStr(<<"A", "b">>)>> >>)>> >>)
Rec2 ==
    PyDict(<< <<KeyA, PyBool(TRUE)>>, <<KeyB, PyList(<<PyInt(1), PyStr(<<"x">>)>>)>> >>)
Rec3 == PyDict(<< <<KeyA, PyNone>>, <<KeyC, PyStr(<<"1">>)>> >>)
Rec4 ==
    PyDict(<< <<KeyA, PyStr(<<"A", "l", "i", "c", "e">>)>>,
              <<KeyC, PyStr(<<"A", "l", "i", "s", "e">>)>> >>)
Rec5 == PyDict(<< <<KeyA, PyStr(<<"A", "l", "i", "s", "e">>)>>, <<KeyC, PyNone>> >>)
EngineRecords == {Rec1, Rec2, Rec3}

\* documents of json_console: an array with an element that is no object, and
\* a single object
EngineDocs ==
    {PyList(<<Rec1, PyInt(5), Rec2, Rec3>>), Rec1, PyList(<<Rec4, PyInt(5), Rec3, Rec5>>)}
\* tables of db_console
EngineTables ==
    {tinydb_format(<<Rec1, Rec2, Rec3>>), tinydb_format(<<Rec3, Rec1>>),
     tinydb_format(<<Rec4, Rec3, Rec5>>)}

QOne == <<"1">>
QTrue == <<"t", "r", "u", "e">>
QPyTrue == <<"T", "r", "u", "e">>
QPyNone == <<"N", "o", "n", "e">>
QStrOne == <<"\"", "1", "\"">>
QAb == <<"A", "b">>
QLowerAb == <<"a", "b">>
QX == <<"x">>
QADot == <<"A", ".">>
QPyDict == <<"{", "'", "c", "'", ":", " ", "N", "o", "n", "e", ",", " ", "'", "d", "'", ":", " ", "'", "A", "b", "'", "}">>
QPyList == <<"[", "1", ",", " ", "'", "x", "'", "]">>
QJsonList == <<"[", "1", ",", "\"", "x", "\"", "]">>
QJsonDict == <<"{", "\"", "d", "\"", ":", "\"", "A", "b", "\"", ",", "\"", "c", "\"", ":", "n", "u", "l", "l", "}">>
QBadPattern == <<"(">>
EngineQueries ==
    {QNull, QOne, QTrue, QPyTrue, QPyNone, QStrOne, QAb, QLowerAb, QX, QADot, QPyDict,
     QPyList, QJsonList, QJsonDict, QBadPattern}

PathBC == <<"b", ".", "c">>
PathBD == <<"b", ".", "d">>
PathAX == <<"a", ".", "x">>
PathBCX == <<"b", ".", "c", ".", "x">>
PathBDot == <<"b", ".">>
KeyZ == <<"z">>
EngineFields ==
    {<<KeyA>>, <<KeyB>>, <<KeyC>>, <<PathBC>>, <<PathBD>>, <<PathAX>>, <<KeyZ>>,
     <<KeyC, KeyA>>, <<KeyA, KeyC>>, <<PathBC, PathBD>>}
EnginePaths == {KeyA, KeyB, KeyC, PathBC, PathBD, PathAX, PathBCX, PathBDot, KeyZ, <<>>}

EngineSearches ==
    {SearchArgs(q, f, c, i, r) :
        q \in EngineQueries, f \in EngineFields, c \in BOOLEAN, i \in BOOLEAN, r \in BOOLEAN}

QAlise == <<"A", "l", "i", "s", "e">>
QAlice == <<"A", "l", "i", "c", "e">>
EngineFuzzyFields == {<<KeyA>>, <<KeyC>>, <<KeyA, KeyC>>, <<KeyC, KeyA>>, <<PathBD, KeyA>>, <<KeyZ>>}
EngineThresholds == {0, DefaultThreshold, 100}
EngineFuzzySearches ==
    {FuzzyArgs(q, f, t) :
        q \in {QAlise, QAlice, QOne, QPyNone}, f \in EngineFuzzyFields, t \in EngineThresholds}

\* the arrays convert_to_tinydb_format is given: up to MaxRecords elements,
\* objects or not, the same element more than once
EngineElements == {Rec1, Rec3, PyInt(5), PyStr(QX)}
EngineLists ==
    UNION {[1..n -> EngineElements] : n \in 0..MaxRecords}

InitEngine ==
    /\ console \in {"json", "db"}
    /\ \/ /\ console = "json"
          /\ data \in EngineDocs
          /\ db = NoPath
          /\ file_path = ArrayJson
          /\ disk = [InitDisk EXCEPT ![ArrayJson] = File(json_dump(data))]
       \/ /\ console = "db"
          /\ data = PyNone
          /\ db = TableJson
          /\ file_path = TableJson
          /\ \E t \in EngineTables : disk = [InitDisk EXCEPT ![TableJson] = File(json_dump(t))]
    /\ out = Done("start", <<>>, FALSE, "none", <<>>, <<>>)
    /\ io_faults = MaxIOFaults

\* one call of get_nested_value, of json_console and of db_console
Resolve ==
    /\ out.cmd = "start"
    /\ \E record \in EngineRecords, field_path \in EnginePaths :
         out' = Done("resolve", [record |-> record, field_path |-> field_path], FALSE, "none",
                     <<get_nested_value(record, field_path),
                       db_get_nested_value(record, field_path)>>,
                     <<>>)
    /\ UNCHANGED <<console, data, db, file_path, disk, io_faults>>

\* one call of convert_to_tinydb_format on an array read from a.json
Convert ==
    /\ console = "db"
    /\ out.cmd = "start"
    /\ \E xs \in EngineLists :
         \E r \in {convert_to_tinydb_format(PyList(xs), ArrayJson, disk, "ok")} :
            /\ disk' = r.disk
            /\ out' = Done("convert", PyList(xs), ~r.ok, "none", <<r.path>>, r.ops)
    /\ UNCHANGED <<console, data, db, file_path, io_faults>>

EngineJsonSearch == out.cmd = "start" /\ JsonSearch(EngineSearches)
EngineDbSearch == out.cmd = "start" /\ DbSearch(EngineSearches)
EngineJsonFuzzySearch == out.cmd = "start" /\ JsonFuzzySearch(EngineFuzzySearches)
EngineDbFuzzySearch == out.cmd = "start" /\ DbFuzzySearch(EngineFuzzySearches)
\* open_json and status of db_console, then one more status
EngineDbOpenJson ==
    out.cmd = "start" /\ DbOpenJson(Editors \cup {Editor(TRUE, TRUE, FALSE, <<>>)})
EngineDbStatus == out.cmd \in {"start", "open_json"} /\ DbStatus

NextEngine ==
    \/ Resolve
    \/ Convert
    \/ EngineJsonSearch
    \/ EngineDbSearch
    \/ EngineJsonFuzzySearch
    \/ EngineDbFuzzySearch
    \/ EngineDbOpenJson
    \/ EngineDbStatus

SpecEngine == InitEngine /\ [][NextEngine]_vars

(***************************************************************************)
(* Properties                                                              *)
(* What the specification says of a command is stated over out, the record *)
(* of the last command, and over the step that ran it.                     *)
(***************************************************************************)
\* the document a console works on: the value held in self.data, or the
\* records the TinyDB handle yields
Document ==
    IF console = "json" THEN data
    ELSE IF db = NoPath THEN PyNone
    ELSE db_all(disk, db)

\* the records a search goes through, in the order it numbers them
Records ==
    IF console = "json"
    THEN (IF isinstance_dict(data) THEN <<data>>
          ELSE IF isinstance_list(data) THEN data.xs
          ELSE <<>>)
    ELSE IF db = NoPath THEN <<>>
    ELSE db_all(disk, db).records

\* resolve(R, P) as the specification defines it: the node reached after k
\* segments, and whether every one of the first k segments is present
ABSENT == PyNone
RECURSIVE NodeAt(_, _, _)
NodeAt(R, segs, k) == IF k = 0 THEN R ELSE GetKey(NodeAt(R, segs, k - 1), segs[k])
RECURSIVE Reaches(_, _, _)
Reaches(R, segs, k) ==
    \/ k = 0
    \/ /\ Reaches(R, segs, k - 1)
       /\ isinstance_dict(NodeAt(R, segs, k - 1))
       /\ HasKey(NodeAt(R, segs, k - 1), segs[k])
Present(R, P) == Reaches(R, Split(P, "."), Len(Split(P, ".")))
Resolved(R, P) ==
    IF Present(R, P) THEN NodeAt(R, Split(P, "."), Len(Split(P, "."))) ELSE ABSENT

\* structural equality of two JSON values: objects by keys, arrays by position
RECURSIVE json_equal(_, _)
json_equal(x, y) ==
    /\ x.t = y.t
    /\ IF x.t = "list"
       THEN /\ Len(x.xs) = Len(y.xs)
            /\ \A i \in 1..Len(x.xs) : json_equal(x.xs[i], y.xs[i])
       ELSE IF x.t = "dict"
       THEN /\ Keys(x) = Keys(y)
            /\ \A k \in Keys(x) : json_equal(GetKey(x, k), GetKey(y, k))
       ELSE x = y

\* a pattern of letters, digits and dots, and re.search for such a pattern: a
\* dot stands for any character but the newline
PlainChars ==
    {Digits[i] : i \in 1..10} \cup DOMAIN UpperToLower
        \cup {UpperToLower[c] : c \in DOMAIN UpperToLower}
IsSimplePattern(p) == \A k \in 1..Len(p) : p[k] \in PlainChars \cup {"."}
re_search(p, s) ==
    \E i \in 1..(Len(s) - Len(p) + 1) :
        \A k \in 1..Len(p) :
            IF p[k] = "." THEN s[i + k - 1] # "\n" ELSE s[i + k - 1] = p[k]

Exact(args) == ~args.contains /\ ~args.icontains /\ ~args.regex
FlagCount(args) ==
    (IF args.contains THEN 1 ELSE 0) + (IF args.icontains THEN 1 ELSE 0)
        + (IF args.regex THEN 1 ELSE 0)
\* the numbers of the records the last search reported
HitIdx == {out.results[i].idx : i \in 1..Len(out.results)}
\* the numbers of the records one of whose searched fields satisfies Test
Expected(args, Test(_)) ==
    {i \in 1..Len(Records) :
        \E k \in 1..Len(args.field) : Test(Resolved(Records[i], args.field[k]))}
\* the numbers of the records one of whose searched fields is present and null
PresentNull(args) ==
    {i \in 1..Len(Records) :
        \E k \in 1..Len(args.field) :
            /\ Present(Records[i], args.field[k])
            /\ Resolved(Records[i], args.field[k]) = PyNone}

\* C1: a load that fails leaves the loaded document and the file path as they
\* were before the command, in json_console and in db_console; the steps
\* looked at are those in which no file operation failed.
C1_FailedLoadKeepsState ==
    [][(out'.cmd = "load" /\ out'.err /\ io_faults' = io_faults)
        => (data' = data /\ db' = db /\ file_path' = file_path
            /\ Document' = Document)]_vars

\* C2: in json_console, with a document loaded, every load and every insert,
\* failed or not, writes the in-memory document to the current file path
\* before it returns: every write of the command is of that document to that
\* path, there is at least one, and when the last one succeeds the file holds
\* the document's JSON text.
C2_LoadAndInsertPersist ==
    (console = "json" /\ out.cmd \in {"load", "insert"} /\ data # PyNone)
        => /\ out.saves # <<>>
           /\ out.saves[Len(out.saves)].path = file_path
           /\ out.saves[Len(out.saves)].doc = data
           /\ out.saves[Len(out.saves)].ok => disk[file_path] = File(json_dump(data))
C2_FailedInsertPersisted ==
    /\ console = "json" /\ out.cmd = "insert" /\ out.err /\ data # PyNone
    /\ out.saves # <<>>
    /\ disk[file_path] = File(json_dump(data))

\* C3: in json_console, inserting an object while the document is an array
\* appends it as the last element and keeps every other element in place, and
\* a later exact search for a value of the new record matches that record.
C3_InsertAppendsAndIsFound ==
    /\ [][(console = "json" /\ out'.cmd = "insert" /\ isinstance_list(data)
           /\ json_loads(out'.args).ok /\ isinstance_dict(json_loads(out'.args).v))
            => (~out'.err
                /\ data' = PyList(Append(data.xs, json_loads(out'.args).v)))]_vars
    /\ [](\A k \in Keys(json_loads(InsertRecord).v) :
            (/\ console = "json" /\ out.cmd = "search" /\ Exact(out.args)
             /\ isinstance_list(data) /\ data.xs # <<>>
             /\ data.xs[Len(data.xs)] = json_loads(InsertRecord).v
             /\ out.args.field = <<k>>
             /\ json_loads(out.args.value).ok
             /\ json_equal(json_loads(out.args.value).v,
                           GetKey(json_loads(InsertRecord).v, k)))
                => Len(data.xs) \in HitIdx)

\* C4: an insert whose payload is malformed, an array or a scalar, or an
\* insert while the json_console document is an object, is reported as an
\* error and leaves the document, the handle and the file path unchanged; in
\* db_console nothing is written.
BadInsert(payload) ==
    \/ ~json_loads(payload).ok
    \/ ~isinstance_dict(json_loads(payload).v)
    \/ console = "json" /\ isinstance_dict(data)
C4_BadInsertChangesNothing ==
    [][(out'.cmd = "insert" /\ BadInsert(out'.args))
        => (out'.err /\ data' = data /\ db' = db /\ file_path' = file_path
            /\ (console = "db" => disk' = disk))]_vars
C4_ArrayPayloadRefused ==
    /\ console = "json" /\ out.cmd = "insert" /\ out.args = InsertArray
    /\ isinstance_list(data) /\ out.err

\* C5: for every record R and path P both resolvers return the value reached
\* by following the segments of P through nested objects when every segment
\* is present, and ABSENT, without raising, as soon as a segment is missing
\* or the current node is no object.
C5_ResolverFollowsPath ==
    out.cmd = "resolve"
        => out.results = <<Resolved(out.args.record, out.args.field_path),
                           Resolved(out.args.record, out.args.field_path)>>
C5_ScalarOnThePath ==
    /\ out.cmd = "resolve" /\ out.args.record = Rec1 /\ out.args.field_path = PathAX
    /\ out.results = <<ABSENT, ABSENT>>

\* C6: a field that holds null is present: an exact search for null reports
\* just the records with such a field, while a contains, icontains or regex
\* search never reports a null field and does not fail on one.
C6_NullIsPresent ==
    out.cmd = "search"
        => /\ (Exact(out.args) /\ out.args.value = QNull)
                => HitIdx = PresentNull(out.args)
           /\ ~Exact(out.args)
                => /\ \A i \in 1..Len(out.results) : out.results[i].value # PyNone
                   /\ Expected(out.args, LAMBDA v : v # PyNone) = {} => out.exc = "none"

\* C7: in exact mode with a query that is no JSON literal, a record is
\* reported if and only if the string form of one of its searched fields, of
\* whatever JSON type but null, equals the raw query, in both consoles.
C7_ExactFallsBackToStr ==
    (out.cmd = "search" /\ Exact(out.args) /\ ~json_loads(out.args.value).ok)
        => HitIdx = Expected(out.args, LAMBDA v : v # PyNone /\ py_str(v) = out.args.value)

\* C8: in exact mode with a query that parses as JSON to J, every record with
\* a searched field that holds J is reported, J compared structurally.
C8_ExactJsonRoundTrip ==
    (out.cmd = "search" /\ Exact(out.args) /\ json_loads(out.args.value).ok)
        => \A i \in 1..Len(Records) :
              (\E k \in 1..Len(out.args.field) :
                  /\ Present(Records[i], out.args.field[k])
                  /\ json_equal(Resolved(Records[i], out.args.field[k]),
                                json_loads(out.args.value).v))
                => i \in HitIdx

\* C9: a search given more than one of --contains, --icontains and --regex is
\* rejected as an error and reports no match.
C9_ModesAreExclusive ==
    (out.cmd = "search" /\ FlagCount(out.args) > 1)
        => (out.err /\ out.results = <<>> /\ out.exc = "none")

\* C10: in regex mode a search with a valid pattern completes and reports
\* exactly the records with a searched field whose string form holds a match
\* of the pattern.
C10_RegexFindsPattern ==
    (out.cmd = "search" /\ out.args.regex /\ IsSimplePattern(out.args.value))
        => /\ out.exc = "none"
           /\ HitIdx = Expected(out.args,
                                LAMBDA v : v # PyNone /\ re_search(out.args.value, py_str(v)))


\* the nesting depth of the parentheses of a pattern after its last character,
\* -1 once a group was closed that was never opened
RECURSIVE ParenDepth(_, _)
ParenDepth(p, depth) ==
    IF depth < 0 \/ p = <<>> THEN depth
    ELSE ParenDepth(Tail(p), IF Head(p) = "(" THEN depth + 1
                             ELSE IF Head(p) = ")" THEN depth - 1
                             ELSE depth)
\* a pattern of plain characters, dots and parentheses that re.compile refuses
IsInvalidPattern(p) == ParenDepth(p, 0) # 0

\* C11: a regex search whose pattern does not compile reports an error, returns
\* normally and yields no result
C11_InvalidPatternReported ==
    (out.cmd = "search" /\ FlagCount(out.args) = 1 /\ out.args.regex
        /\ IsInvalidPattern(out.args.value))
    => (out.err /\ out.exc = "none" /\ out.results = <<>>)

\* the match predicate of the specification for one searched field of a record:
\* the field is present and its value satisfies the mode of the search
SpecMatch(args, R, P) ==
    /\ Present(R, P)
    /\ IF args.regex
       THEN Resolved(R, P) # PyNone /\ re_search(args.value, py_str(Resolved(R, P)))
       ELSE IF args.icontains
       THEN /\ Resolved(R, P) # PyNone
            /\ Contains(Lower(py_str(Resolved(R, P))), Lower(args.value))
       ELSE IF args.contains
       THEN Resolved(R, P) # PyNone /\ Contains(py_str(Resolved(R, P)), args.value)
       ELSE IF json_loads(args.value).ok
       THEN py_eq(Resolved(R, P), json_loads(args.value).v)
       ELSE Resolved(R, P) # PyNone /\ py_str(Resolved(R, P)) = args.value

\* the position in args.field of the first field of R that matches, counted
\* from position k, or 0
RECURSIVE FirstMatch(_, _, _)
FirstMatch(args, R, k) ==
    IF k > Len(args.field) THEN 0
    ELSE IF SpecMatch(args, R, args.field[k]) THEN k
    ELSE FirstMatch(args, R, k + 1)

\* the reference search: the elements in order, those that are no object
\* passed over, one result per object for its first matching field
RECURSIVE Reference(_, _, _)
Reference(args, i, acc) ==
    IF i > Len(Records) THEN acc
    ELSE IF ~isinstance_dict(Records[i]) \/ FirstMatch(args, Records[i], 1) = 0
    THEN Reference(args, i + 1, acc)
    ELSE Reference(args, i + 1,
                   Append(acc,
                          [idx |-> i,
                           field |-> args.field[FirstMatch(args, Records[i], 1)],
                           value |-> Resolved(Records[i],
                                              args.field[FirstMatch(args, Records[i], 1)])]))

\* C12: a search that is not fuzzy completes and its results are those of the
\* reference search: the elements in order, non-objects passed over, one result
\* per object for the first searched field that resolves and matches.
C12_SearchFollowsReference ==
    (out.cmd = "search" /\ FlagCount(out.args) <= 1
        /\ (out.args.regex => IsSimplePattern(out.args.value)))
    => (out.exc = "none" /\ out.results = Reference(out.args, 1, <<>>))

\* the position of a field path among the paths a fuzzy search was given
FieldPos(args, field) == CHOOSE k \in 1..Len(args.field) : args.field[k] = field
\* x was found before y: an earlier record, or the same record and an earlier
\* field path
FoundBefore(args, x, y) ==
    \/ x.idx < y.idx
    \/ x.idx = y.idx /\ FieldPos(args, x.field) < FieldPos(args, y.field)

\* C13: the results of a fuzzy search are in order of falling score, and results
\* of one score are in the order they were found in: record order, then the
\* order of the field paths.
C13_FuzzySortedAndStable ==
    out.cmd = "fuzzy_search"
        => \A i, j \in 1..Len(out.results) :
              i < j => /\ out.results[i].score >= out.results[j].score
                       /\ out.results[i].score = out.results[j].score
                            => FoundBefore(out.args, out.results[i], out.results[j])

\* a fuzzy search with two results of one score and with a result that was
\* found later than a result that follows it
C13_TieAndLaterHigherScore ==
    /\ out.cmd = "fuzzy_search"
    /\ \E i, j \in 1..Len(out.results) :
          i < j /\ out.results[i].score = out.results[j].score
    /\ \E i, j \in 1..Len(out.results) :
          /\ i < j
          /\ out.results[i].score > out.results[j].score
          /\ FoundBefore(out.args, out.results[j], out.results[i])

\* the (record, field path) pairs of a fuzzy search whose record is an object
\* and whose path resolves in it, null included or not, to a value whose string
\* form scores at least the threshold
FuzzyPairs(args, with_null) ==
    {p \in (1..Len(Records)) \X (1..Len(args.field)) :
        /\ isinstance_dict(Records[p[1]])
        /\ Present(Records[p[1]], args.field[p[2]])
        /\ with_null \/ Resolved(Records[p[1]], args.field[p[2]]) # PyNone
        /\ fuzz_ratio(args.search_term, py_str(Resolved(Records[p[1]], args.field[p[2]])))
              >= args.threshold}
\* the last fuzzy search reported one entry for every pair of the set and
\* nothing else
ReportsExactly(pairs) ==
    /\ Len(out.results) = Cardinality(pairs)
    /\ \A p \in pairs :
          \E n \in 1..Len(out.results) :
             /\ out.results[n].idx = p[1]
             /\ out.results[n].field = out.args.field[p[2]]
             /\ out.results[n].value = Resolved(Records[p[1]], out.args.field[p[2]])

\* C14 as stated: a fuzzy search reports one entry for every pair of an object
\* record and a field path whose value resolves, be it to null, and scores at
\* least the threshold, and nothing else.
C14_FuzzyReportsEveryPair ==
    out.cmd = "fuzzy_search" => ReportsExactly(FuzzyPairs(out.args, TRUE))

\* C14, amended: a fuzzy search does not stop at the first field of a record: it
\* reports one entry for every pair of an object record and a field path whose
\* value resolves to something other than null and scores at least the
\* threshold, and nothing else.
C14_FuzzyReportsEveryNonNullPair ==
    out.cmd = "fuzzy_search" => ReportsExactly(FuzzyPairs(out.args, FALSE))

\* a fuzzy search that reported one record for two of its fields and left out a
\* field that resolves but scores below the threshold
C14_OneRecordTwice ==
    /\ out.cmd = "fuzzy_search"
    /\ \E n, m \in 1..Len(out.results) :
          n # m /\ out.results[n].idx = out.results[m].idx
    /\ FuzzyPairs(out.args, FALSE)
          # FuzzyPairs([out.args EXCEPT !.threshold = 0], FALSE)

\* q is a substring of s
IsSubstring(q, s) == \E i \in 0..(Len(s) - Len(q)) : \A k \in 1..Len(q) : s[i + k] = q[k]

\* C15: a contains search reports just the records with a searched field that
\* resolves to a value V other than null with the raw query a substring of
\* str(V), case kept; an icontains search those with the lower-cased query a
\* substring of the lower-cased str(V); the value reported is such a V.
C15_ContainsIsSubstring ==
    (out.cmd = "search" /\ FlagCount(out.args) = 1 /\ ~out.args.regex)
        => /\ out.exc = "none"
           /\ out.args.contains
                => /\ HitIdx = Expected(out.args,
                                        LAMBDA v : v # PyNone
                                                   /\ IsSubstring(out.args.value, py_str(v)))
                   /\ \A n \in 1..Len(out.results) :
                         IsSubstring(out.args.value, py_str(out.results[n].value))
           /\ out.args.icontains
                => /\ HitIdx = Expected(out.args,
                                        LAMBDA v : v # PyNone
                                                   /\ IsSubstring(Lower(out.args.value),
                                                                  Lower(py_str(v))))
                   /\ \A n \in 1..Len(out.results) :
                         IsSubstring(Lower(out.args.value),
                                     Lower(py_str(out.results[n].value)))

\* an icontains search for ab that reports a field holding Ab, and the same
\* document has no field with ab in it
C15_FoundByFoldingCase ==
    /\ out.cmd = "search" /\ FlagCount(out.args) = 1 /\ out.args.icontains
    /\ out.args.value = QLowerAb
    /\ \E n \in 1..Len(out.results) :
          /\ ~IsSubstring(out.args.value, py_str(out.results[n].value))
          /\ IsSubstring(QAb, py_str(out.results[n].value))

\* the file of the loaded document does not hold the document: a write of it
\* has failed
Stale == Truthy(file_path) /\ data # PyNone /\ disk[file_path] # File(json_dump(data))
\* a write of the step failed
WriteFailed == \E n \in 1..Len(out'.saves) : ~out'.saves[n].ok

\* C16: in json_console a persist whose write fails is reported as failed and
\* leaves the document in memory and the file path as the command made them:
\* the document the write was given stays loaded under its path, an insert has
\* appended its record, every other command but load has left the document
\* alone; and a command that runs while the file is stale works on the
\* document in memory.
C16_FailedWriteKeepsMemory ==
    [][(console = "json" /\ (WriteFailed \/ Stale) /\ out'.cmd # "start")
        => /\ \A n \in 1..Len(out'.saves) :
                 out'.saves[n].doc = data' /\ out'.saves[n].path = file_path'
           /\ (out'.cmd = "insert" /\ ~out'.err)
                => data' = PyList(Append(data.xs, json_loads(out'.args).v))
           /\ (out'.cmd = "insert" /\ out'.err) => data' = data
           /\ out'.cmd \in {"search", "fuzzy_search", "open_json", "status"} => data' = data
           /\ out'.cmd # "load" => file_path' = file_path
           /\ (out'.cmd = "load" /\ ~out'.err /\ ~is_url(Strip(out'.args)))
                => /\ data' = read_json(disk, Strip(out'.args)).v
                   /\ file_path' = Strip(out'.args)
           /\ (out'.cmd = "load" /\ out'.err) => (data' = data /\ file_path' = file_path)
           /\ (out'.cmd = "search" /\ out'.args = SearchArgs(<<"3">>, <<KeyA>>, FALSE, FALSE, FALSE))
                => {out'.results[n].idx : n \in 1..Len(out'.results)}
                      = {i \in 1..Len(Records) :
                            isinstance_dict(Records[i])
                            /\ Resolved(Records[i], KeyA) = PyInt(3)}]_vars

\* an insert whose write failed: the record is in memory and the file differs
C16_InsertKeptAfterFailedWrite ==
    /\ console = "json" /\ out.cmd = "insert" /\ ~out.err
    /\ out.saves # <<>> /\ ~out.saves[1].ok
    /\ data.xs[Len(data.xs)] = json_loads(InsertRecord).v
    /\ Stale

\* C17: in json_console every command ends with a call of save_data on every
\* path through it: with a document loaded, each of load, insert, search,
\* fuzzy_search, open_json and status has attempted to write that document to
\* its file when it is over.
C17_EveryCommandSaves ==
    (console = "json" /\ data # PyNone
        /\ out.cmd \in {"load", "insert", "search", "fuzzy_search", "open_json", "status"})
    => /\ out.saves # <<>>
       /\ out.saves[Len(out.saves)].doc = data
       /\ out.saves[Len(out.saves)].path = file_path

\* the table the conversion wrote, read back from the file it names
WrittenTables == json_loads(disk[out.results[1]].text).v

\* C18: convert_to_tinydb_format turns a list of N elements into a file with the
\* one table _default, whose keys are the strings "1" to "N" in this order, the
\* key of number i holding the i-th element of the list as it was.
C18_ConvertNumbersFromOne ==
    (out.cmd = "convert" /\ ~out.err)
        => /\ out.results[1] = ArrayDbJson
           /\ json_loads(disk[out.results[1]].text).ok
           /\ isinstance_dict(WrittenTables)
           /\ Len(WrittenTables.kv) = 1
           /\ WrittenTables.kv[1][1] = DefaultTable
           /\ isinstance_dict(WrittenTables.kv[1][2])
           /\ Len(WrittenTables.kv[1][2].kv) = Len(out.args.xs)
           /\ \A i \in 1..Len(out.args.xs) :
                 /\ WrittenTables.kv[1][2].kv[i][1] = NatStr(i)
                 /\ WrittenTables.kv[1][2].kv[i][2] = out.args.xs[i]

\* a conversion of a list of three elements that holds one element twice and
\* an element that is no object
C18_ListWithRepeatsConverted ==
    /\ out.cmd = "convert" /\ ~out.err
    /\ Len(out.args.xs) = 3
    /\ out.args.xs[1] = out.args.xs[3]
    /\ ~isinstance_dict(out.args.xs[2])
    /\ path_exists(disk, ArrayDbJson)

\* the path json_console keeps a document under that was loaded from source
OriginOf(source) == IF is_url(Strip(source)) THEN DownloadedJson ELSE Strip(source)
\* the document a load from source may yield
LoadedFrom(source, doc) ==
    IF is_url(Strip(source))
    THEN \E fetch \in WebResponses : response_json(fetch).ok /\ response_json(fetch).v = doc
    ELSE read_json(disk, Strip(source)).ok /\ read_json(disk, Strip(source)).v = doc

\* one command of json_console: the file path is that of the source the loaded
\* document came from (a load that succeeds sets both, a load that fails and
\* every other command leave the path alone, the failed load the document too),
\* every write of save_data is a write of the loaded document to that path, the
\* step changes no other file, and the path is unset exactly when no document
\* is loaded
WritesFollowDocument ==
    /\ (out'.cmd = "load" /\ ~out'.err)
          => (file_path' = OriginOf(out'.args) /\ LoadedFrom(out'.args, data'))
    /\ (out'.cmd = "load" /\ out'.err) => (file_path' = file_path /\ data' = data)
    /\ out'.cmd # "load" => file_path' = file_path
    /\ \A n \in 1..Len(out'.saves) :
          out'.saves[n].path = file_path' /\ out'.saves[n].doc = data'
    /\ \A p \in Paths : disk'[p] # disk[p] => p = file_path'
    /\ (file_path' = NoPath) <=> (data' = PyNone)

\* C19 as stated: every write of save_data writes the loaded document to the
\* path it was loaded from, the path is unset exactly when no document is
\* loaded, and a load that fails never has the previous document written over
\* the file at the attempted source.
C19_FailedLoadLeavesSourceFile ==
    [][(console = "json" /\ out'.cmd # "start")
        => /\ WritesFollowDocument
           /\ (out'.cmd = "load" /\ out'.err /\ Strip(out'.args) \in Paths)
                => disk'[Strip(out'.args)] = disk[Strip(out'.args)]]_vars

\* C19, amended: every write of save_data writes the loaded document to the
\* path it was loaded from and no command changes another file, so that a load
\* that fails leaves the file at the attempted source as it was unless that
\* file is the file of the loaded document itself; the path is unset exactly
\* when no document is loaded.
C19_WritesGoToTheSourceOfTheDocument ==
    [][(console = "json" /\ out'.cmd # "start") => WritesFollowDocument]_vars

\* a load of a malformed file that failed while a document was loaded: the
\* command wrote that document to its own file and left the malformed file alone
C19_FailedLoadWroteElsewhere ==
    /\ console = "json" /\ out.cmd = "load" /\ out.err
    /\ Strip(out.args) = BadJson
    /\ out.saves # <<>> /\ out.saves[1].ok
    /\ out.saves[1].path # BadJson
    /\ disk[out.saves[1].path] = File(json_dump(data))
    /\ disk[BadJson] = InitDisk[BadJson]

\* C20: in json_console an editor that open_json runs and that changes the file
\* changes nothing in memory, and the save_data call behind it writes the
\* document in memory over the file: when the command is over and that write
\* went through, the file holds the document in memory and the text the editor
\* left is gone.
C20_EditsAreOverwritten ==
    [][(console = "json" /\ out'.cmd = "open_json")
        => /\ data' = data /\ file_path' = file_path
           /\ (out'.args.starts /\ out'.args.writes /\ ~out'.err)
                => /\ Len(out'.saves) = 1
                   /\ out'.saves[1].doc = data /\ out'.saves[1].path = file_path
                   /\ out'.saves[1].ok
                        => /\ disk'[file_path] = File(json_dump(data))
                           /\ disk'[file_path] # File(out'.args.text)]_vars

\* open_json ran an editor that saved another text, and the file holds the
\* document in memory again
C20_EditorSavedAndLost ==
    /\ console = "json" /\ out.cmd = "open_json" /\ ~out.err
    /\ out.args.starts /\ out.args.writes
    /\ json_loads(out.args.text).v # data
    /\ out.saves # <<>> /\ out.saves[1].ok
    /\ disk[file_path] = File(json_dump(data))

=========================================================================
